---- MODULE Spec2Model ----
(***************************************************************************)
(* marxiv: one run of main() of src/marxiv.py.  The run parses its         *)
(* arguments, creates a temporary directory, downloads and extracts the    *)
(* arXiv source archive into it, chooses the main LaTeX file, hands it to  *)
(* pandoc and leaves the with-block.  Strings are TLA+ strings and the     *)
(* Python string methods the code uses are computed on them character by   *)
(* character.                                                              *)
(***************************************************************************)
EXTENDS Integers, Sequences, FiniteSets, TLC

VARIABLES
    pc,               \* position of the run in main()
    output_file,      \* args.output_file (None when -o is not given)
    output_format,    \* args.format
    tempExists,       \* the TemporaryDirectory exists on disk
    status,           \* response.status of the fetched response (0: no response)
    dirFiles,         \* files under temp_dir, in the order os.walk visits them
    source_contents,  \* what download_arxiv_source returned
    selResult,        \* what find_main_latex_file returned
    main_file,        \* main()'s main_file
    exc,              \* the exception propagating out of the with-block
    stdout,           \* what was written to standard output, in order
    stderr,           \* what was written to standard error, in order
    exitStatus,       \* the process's exit status (-1 while it runs)
    steps,            \* the pipeline steps run so far, in order
    runArgs,          \* the argument lists handed to subprocess.run, in order
    outFiles,         \* files created on disk outside temp_dir
    raised,           \* history: the exception a step of the run raised
    extracted,        \* history: extractall finished without error
    runResult         \* history: how the subprocess.run call ended

vars == <<pc, output_file, output_format, tempExists, status, dirFiles,
          source_contents, selResult, main_file, exc, stdout, stderr,
          exitStatus, steps, runArgs, outFiles, raised, extracted, runResult>>

----------------------------------------------------------------------------
(* Bounds and the inputs drawn from them *)

MaxFiles == 2

None == "<None>"
NoExc == "none"

arxiv_id == "2401.00001"
temp_dir == "/tmp/tmpd"
cwd == "/home/u"

OutputFiles == {None, "out.md"}
Formats == {"markdown", "gfm"}

----------------------------------------------------------------------------
(* Python string methods *)

LowerChar(c) ==
    CASE c = "A" -> "a" [] c = "B" -> "b" [] c = "C" -> "c" [] c = "D" -> "d"
      [] c = "E" -> "e" [] c = "F" -> "f" [] c = "G" -> "g" [] c = "H" -> "h"
      [] c = "I" -> "i" [] c = "J" -> "j" [] c = "K" -> "k" [] c = "L" -> "l"
      [] c = "M" -> "m" [] c = "N" -> "n" [] c = "O" -> "o" [] c = "P" -> "p"
      [] c = "Q" -> "q" [] c = "R" -> "r" [] c = "S" -> "s" [] c = "T" -> "t"
      [] c = "U" -> "u" [] c = "V" -> "v" [] c = "W" -> "w" [] c = "X" -> "x"
      [] c = "Y" -> "y" [] c = "Z" -> "z" [] OTHER -> c

RECURSIVE Lower(_)
Lower(s) ==
    IF Len(s) = 0 THEN ""
    ELSE LowerChar(SubSeq(s, 1, 1)) \o Lower(SubSeq(s, 2, Len(s)))

StartsWith(s, p) == Len(p) <= Len(s) /\ SubSeq(s, 1, Len(p)) = p

EndsWith(s, p) ==
    Len(p) <= Len(s) /\ SubSeq(s, Len(s) - Len(p) + 1, Len(s)) = p

\* p in s
Contains(s, p) ==
    \E i \in 1..(Len(s) - Len(p) + 1) : SubSeq(s, i, i + Len(p) - 1) = p

\* s.count(p): the number of non-overlapping occurrences, scanning from the left
RECURSIVE Count(_, _)
Count(s, p) ==
    IF Len(s) < Len(p) THEN 0
    ELSE IF SubSeq(s, 1, Len(p)) = p
         THEN 1 + Count(SubSeq(s, Len(p) + 1, Len(s)), p)
         ELSE Count(SubSeq(s, 2, Len(s)), p)

\* os.path.join(a, b)
Join(a, b) ==
    IF StartsWith(b, "/") THEN b
    ELSE IF a = "" \/ EndsWith(a, "/") THEN a \o b
    ELSE a \o "/" \o b

\* Python truthiness of an optional string
Truthy(x) == x # None /\ x # ""

----------------------------------------------------------------------------
(* find_main_latex_file *)

\* A file under temp_dir: the directory os.walk reports it in, its name, its
\* text, and whether open(..., "r").read() can decode it.
TexNames == {"main.tex", "Main.tex", "a.tex"}
OtherNames == {"main.txt", arxiv_id \o ".tar.gz"}
Roots == {temp_dir, Join(temp_dir, "sub")}
Contents == {"",
             "\\documentclass{article}",
             "\\input{a}\\includegraphics{f}",
             "\\documentclass{article}\\input{a}"}

Entries ==
    [root : Roots, file : TexNames, content : Contents, readable : {TRUE}]
    \cup [root : Roots, file : TexNames, content : {""}, readable : {FALSE}]
    \cup [root : {temp_dir}, file : OtherNames, content : {""}, readable : {TRUE}]

PathOf(e) == Join(e.root, e.file)

\* The listings os.walk can produce: paths are distinct, and the files of
\* temp_dir itself come before those of its subdirectory (top-down walk).
Listings ==
    {l \in UNION {[1..n -> Entries] : n \in 0..MaxFiles} :
        \A i, j \in DOMAIN l :
            i < j => /\ PathOf(l[i]) # PathOf(l[j])
                     /\ ~(l[i].root # temp_dir /\ l[j].root = temp_dir)}

IsTexFile(file) == EndsWith(file, ".tex")

heuristic1(file) == Contains(Lower(file), "main")

heuristic2(content) == Contains(content, "\\documentclass")

heuristic3(content) == Count(content, "\\input") + Count(content, "\\include")

\* The tuple appended to candidates for one ".tex" file
Candidate(e) ==
    <<PathOf(e), heuristic1(e.file), heuristic2(e.content), heuristic3(e.content)>>

\* candidates, in discovery order
RECURSIVE Candidates(_)
Candidates(listing) ==
    IF listing = <<>> THEN <<>>
    ELSE (IF IsTexFile(Head(listing).file) THEN <<Candidate(Head(listing))>> ELSE <<>>)
         \o Candidates(Tail(listing))

\* open/read raises for a ".tex" file that cannot be decoded
ScanRaises(listing) ==
    \E i \in DOMAIN listing : IsTexFile(listing[i].file) /\ ~listing[i].readable

BoolInt(b) == IF b THEN 1 ELSE 0

\* Faulty variant: the inclusion count left out of the key
SortKeyNoCount(x) == <<BoolInt(x[2]) + BoolInt(x[3]), 0>>

\* key=lambda x: (sum(x[1:3]), x[3])
SortKey(x) == <<BoolInt(x[2]) + BoolInt(x[3]), x[4]>>

\* Python's order on pairs of integers
KeyLess(a, b) == a[1] < b[1] \/ (a[1] = b[1] /\ a[2] < b[2])

\* Faulty variant: an unstable sort, equal keys end up in reverse discovery order
RECURSIVE InsertBeforeEqual(_, _)
InsertBeforeEqual(x, s) ==
    IF s = <<>> THEN <<x>>
    ELSE IF ~KeyLess(SortKey(x), SortKey(Head(s))) THEN <<x>> \o s
    ELSE <<Head(s)>> \o InsertBeforeEqual(x, Tail(s))

\* x placed into s (sorted, descending) behind every element whose key is not
\* smaller: list.sort is stable, also with reverse=True
RECURSIVE InsertReverse(_, _)
InsertReverse(x, s) ==
    IF s = <<>> THEN <<x>>
    ELSE IF KeyLess(SortKey(Head(s)), SortKey(x)) THEN <<x>> \o s
    ELSE <<Head(s)>> \o InsertReverse(x, Tail(s))

\* candidates.sort(key=..., reverse=True)
RECURSIVE SortReverse(_)
SortReverse(s) ==
    IF s = <<>> THEN <<>>
    ELSE InsertReverse(s[Len(s)], SortReverse(SubSeq(s, 1, Len(s) - 1)))

find_main_latex_file(listing) ==
    LET candidates == SortReverse(Candidates(listing))
    IN  IF candidates # <<>> THEN candidates[1][1] ELSE None

----------------------------------------------------------------------------
(* fetch_url, download_arxiv_source, convert_to_markdown *)

Responses == {200, 204}
TransportErrors == {"HTTPError", "URLError"}
ExtractErrors == {"ReadError", "OSError"}
RunOutcomes == {"ok", "fail", "raise"}

Prog(m) == [by |-> "program", msg |-> m]
Pandoc(m) == [by |-> "pandoc", msg |-> m]
Python(m) == [by |-> "python", msg |-> m]

\* except HTTPError as err
CaughtByFetchUrl(e) == e = "HTTPError"

\* Faulty variant: main catching the wrong exception class
CaughtByMainHTTPError(e) == e = "HTTPError"

\* except tarfile.ReadError
CaughtByMain(e) == e = "ReadError"

FetchFailedMsg(e) == "Failed to download source: " \o e
DownloadErrorMsg == "Error downloading source files for arXiv:" \o arxiv_id
ArchiveErrorMsg == "Error: Couldn't fetch source for arXiv:" \o arxiv_id
NoSourceMsg == "Couldn't find source for arXiv:" \o arxiv_id \o "."
ConvertedMsg(o) == "Converted arXiv:" \o arxiv_id \o " to '" \o o \o "'"
FetchedMsg == "Fetched arXiv:" \o arxiv_id

\* file_path of download_arxiv_source
FilePath(id, output_dir) == Join(output_dir, id \o ".tar.gz")

\* args of convert_to_markdown
PandocArgs(source_file, out, fmt) ==
    <<"pandoc", "-s", source_file, "-t", fmt, "--wrap=none">>
    \o (IF Truthy(out) THEN <<"-o", Join(cwd, out)>> ELSE <<>>)

HasDestination(args) == \E i \in DOMAIN args : args[i] = "-o"
Destination(args) == args[Len(args)]

\* Faulty variant: source_contents or find_main_latex_file(temp_dir)
OrSwapped(a, b) == IF Truthy(b) THEN b ELSE a

\* a or b
Or(a, b) == IF Truthy(a) THEN a ELSE b

FileExists(path) ==
    tempExists /\ \E i \in DOMAIN dirFiles : PathOf(dirFiles[i]) = path

\* Faulty variant: sys.exit() without a status
ExitCodeBareExit(e) == IF e \in {NoExc, "SystemExit"} THEN 0 ELSE 1

\* sys.exit(1), or an exception reaching the top of the script
ExitCode(e) == IF e = NoExc THEN 0 ELSE 1

\* Variant: subprocess.run(..., check=True)
RunRaisesChecked(r) == r \in {"raise", "fail"}

\* subprocess.run(args, cwd=working_dir), without check=True, raises only when
\* the program cannot be started
RunRaises(r) == r = "raise"

\* Faulty variant: cleanup only when the block ends normally
TempDirKeptOnError(e) == e # NoExc

\* TemporaryDirectory.__exit__: the directory is removed whatever leaves the block
TempDirKept(e) == FALSE

----------------------------------------------------------------------------
(* main *)

Init ==
    /\ pc = "start"
    /\ output_file \in OutputFiles
    /\ output_format \in Formats
    /\ tempExists = FALSE
    /\ status = 0
    /\ dirFiles = <<>>
    /\ source_contents = None
    /\ selResult = None
    /\ main_file = None
    /\ exc = NoExc
    /\ stdout = <<>>
    /\ stderr = <<>>
    /\ exitStatus = -1
    /\ steps = <<>>
    /\ runArgs = <<>>
    /\ outFiles = {}
    /\ raised = NoExc
    /\ extracted = FALSE
    /\ runResult = "none"

\* with tempfile.TemporaryDirectory() as temp_dir: a fresh, empty directory
EnterTempDir ==
    /\ pc = "start"
    /\ tempExists' = TRUE
    /\ pc' = "fetch"
    /\ UNCHANGED <<output_file, output_format, status, dirFiles, source_contents,
                   selResult, main_file, exc, stdout, stderr, exitStatus, steps,
                   runArgs, outFiles,
                   raised, extracted, runResult>>

\* Faulty variant: the handler prints and forgets sys.exit(1)
RaisedInTryNoExit(e, out) ==
    /\ stdout' = IF CaughtByMain(e) THEN Append(out, Prog(ArchiveErrorMsg)) ELSE out
    /\ exc' = IF CaughtByMain(e) THEN NoExc ELSE e
    /\ raised' = e
    /\ pc' = IF CaughtByMain(e) THEN "select" ELSE "exit"

\* An exception e leaves download_arxiv_source with out on standard output:
\* main's try statement catches it or lets it leave the with-block.
RaisedInTry(e, out) ==
    /\ stdout' = IF CaughtByMain(e) THEN Append(out, Prog(ArchiveErrorMsg)) ELSE out
    /\ exc' = IF CaughtByMain(e) THEN "SystemExit" ELSE e
    /\ raised' = e
    /\ pc' = "exit"

\* response = fetch_url(url): urlopen returns a response
FetchResponds ==
    /\ pc = "fetch"
    /\ steps' = Append(steps, "fetch")
    /\ \E r \in Responses : status' = r
    /\ pc' = "extract"
    /\ UNCHANGED <<output_file, output_format, tempExists, dirFiles, source_contents,
                   selResult, main_file, exc, stdout, stderr, exitStatus, runArgs,
                   outFiles,
                   raised, extracted, runResult>>

\* response = fetch_url(url): urlopen raises
FetchRaises ==
    /\ pc = "fetch"
    /\ steps' = Append(steps, "fetch")
    /\ \E e \in TransportErrors :
          RaisedInTry(e, IF CaughtByFetchUrl(e)
                         THEN Append(stdout, Prog(FetchFailedMsg(e)))
                         ELSE stdout)
    /\ UNCHANGED <<output_file, output_format, tempExists, status, dirFiles,
                   source_contents, selResult, main_file, stderr, exitStatus,
                   runArgs, outFiles,
                   extracted, runResult>>

\* status 200: tarfile.open and extractall succeed, file_path is returned
ExtractReturns ==
    /\ pc = "extract"
    /\ status = 200
    /\ steps' = Append(steps, "extract")
    /\ \E l \in Listings : dirFiles' = l
    /\ source_contents' = FilePath(arxiv_id, temp_dir)
    /\ extracted' = TRUE
    /\ pc' = "select"
    /\ UNCHANGED <<output_file, output_format, tempExists, status, selResult,
                   main_file, exc, stdout, stderr, exitStatus, runArgs, outFiles,
                   raised, runResult>>

\* status 200: tarfile.open or extractall raises, with part of the archive
\* (none of it, for a payload that is no archive) already extracted
ExtractRaises ==
    /\ pc = "extract"
    /\ status = 200
    /\ steps' = Append(steps, "extract")
    /\ \E l \in Listings : dirFiles' = l
    /\ \E e \in ExtractErrors : RaisedInTry(e, stdout)
    /\ UNCHANGED <<output_file, output_format, tempExists, status, source_contents,
                   selResult, main_file, stderr, exitStatus, runArgs, outFiles,
                   extracted, runResult>>

\* any other status: the message is printed and None returned
DownloadReturnsNone ==
    /\ pc = "extract"
    /\ status # 200
    /\ stdout' = Append(stdout, Prog(DownloadErrorMsg))
    /\ source_contents' = None
    /\ pc' = "select"
    /\ UNCHANGED <<output_file, output_format, tempExists, status, dirFiles,
                   selResult, main_file, exc, stderr, exitStatus, steps, runArgs,
                   outFiles,
                   raised, extracted, runResult>>

\* main_file = find_main_latex_file(temp_dir) or source_contents
SelectReturns ==
    /\ pc = "select"
    /\ ~ScanRaises(dirFiles)
    /\ steps' = Append(steps, "select")
    /\ selResult' = find_main_latex_file(dirFiles)
    /\ main_file' = Or(selResult', source_contents)
    /\ pc' = "convert"
    /\ UNCHANGED <<output_file, output_format, tempExists, status, dirFiles,
                   source_contents, exc, stdout, stderr, exitStatus, runArgs,
                   outFiles,
                   raised, extracted, runResult>>

\* find_main_latex_file raises on a file it cannot read; main has no handler
SelectRaises ==
    /\ pc = "select"
    /\ ScanRaises(dirFiles)
    /\ steps' = Append(steps, "select")
    /\ exc' = "UnicodeDecodeError"
    /\ raised' = "UnicodeDecodeError"
    /\ pc' = "exit"
    /\ UNCHANGED <<output_file, output_format, tempExists, status, dirFiles,
                   source_contents, selResult, main_file, stdout, stderr,
                   exitStatus, runArgs, outFiles,
                   extracted, runResult>>

\* The message main prints after convert_to_markdown returned
DoneMsg == IF Truthy(output_file) THEN ConvertedMsg(output_file) ELSE FetchedMsg

\* if main_file: convert_to_markdown(...) and the message on standard error.
\* pandoc writes the document to its destination or to the standard output it
\* inherits, or fails with a message of its own, or cannot be started at all.
Convert ==
    /\ pc = "convert"
    /\ Truthy(main_file)
    /\ steps' = Append(steps, "convert")
    /\ LET args == PandocArgs(main_file, output_file, output_format)
       IN  /\ runArgs' = Append(runArgs, args)
           /\ \E r \in RunOutcomes :
                /\ r = "ok" => FileExists(main_file)
                /\ runResult' = r
                /\ IF RunRaises(r)
                   THEN /\ exc' = "FileNotFoundError"
                        /\ raised' = "FileNotFoundError"
                        /\ UNCHANGED <<stdout, stderr, outFiles>>
                   ELSE /\ outFiles' = IF r = "ok" /\ HasDestination(args)
                                       THEN outFiles \cup {Destination(args)}
                                       ELSE outFiles
                        /\ stdout' = IF r = "ok" /\ ~HasDestination(args)
                                     THEN Append(stdout, Pandoc("document"))
                                     ELSE stdout
                        /\ stderr' = Append(IF r = "ok" THEN stderr
                                            ELSE Append(stderr, Pandoc("error")),
                                            Prog(DoneMsg))
                        /\ UNCHANGED <<exc, raised>>
    /\ pc' = "exit"
    /\ UNCHANGED <<output_file, output_format, tempExists, status, dirFiles,
                   source_contents, selResult, main_file, exitStatus, extracted>>

\* else: the message and sys.exit(1)
NoSource ==
    /\ pc = "convert"
    /\ ~Truthy(main_file)
    /\ stdout' = Append(stdout, Prog(NoSourceMsg))
    /\ exc' = "SystemExit"
    /\ pc' = "exit"
    /\ UNCHANGED <<output_file, output_format, tempExists, status, dirFiles,
                   source_contents, selResult, main_file, stderr, exitStatus,
                   steps, runArgs, outFiles,
                   raised, extracted, runResult>>

\* The with-block is left and the process ends: the directory is cleaned up,
\* an uncaught exception is reported by the interpreter on standard error.
ExitTempDir ==
    /\ pc = "exit"
    /\ tempExists' = TempDirKept(exc)
    /\ dirFiles' = IF tempExists' THEN dirFiles ELSE <<>>
    /\ stderr' = IF exc \in {NoExc, "SystemExit"} THEN stderr
                 ELSE Append(stderr, Python("Traceback: " \o exc))
    /\ exitStatus' = ExitCode(exc)
    /\ pc' = "done"
    /\ UNCHANGED <<output_file, output_format, status, source_contents, selResult,
                   main_file, exc, stdout, steps, runArgs, outFiles,
                   raised, extracted, runResult>>

Next ==
    \/ EnterTempDir
    \/ FetchResponds
    \/ FetchRaises
    \/ ExtractReturns
    \/ ExtractRaises
    \/ DownloadReturnsNone
    \/ SelectReturns
    \/ SelectRaises
    \/ Convert
    \/ NoSource
    \/ ExitTempDir

Spec == Init /\ [][Next]_vars

----------------------------------------------------------------------------
(* Vocabulary of the properties *)

Pipeline == <<"fetch", "extract", "select", "convert">>

Ran(step) == \E i \in DOMAIN steps : steps[i] = step

IsPrefix(s, t) == Len(s) <= Len(t) /\ SubSeq(t, 1, Len(s)) = s

\* What the program itself printed on a stream
ProgramMsgs(stream) ==
    {stream[i].msg : i \in {k \in DOMAIN stream : stream[k].by = "program"}}

Printed == ProgramMsgs(stdout) \cup ProgramMsgs(stderr)

\* The scanned files that are candidates, by position in discovery order
TexIdx == {i \in DOMAIN dirFiles : EndsWith(dirFiles[i].file, ".tex")}

\* (name signal + declaration signal, inclusion count) of a scanned file
Rank(e) ==
    <<BoolInt(heuristic1(e.file)) + BoolInt(heuristic2(e.content)),
      heuristic3(e.content)>>

RankBelow(a, b) == a[1] < b[1] \/ (a[1] = b[1] /\ a[2] < b[2])

TopIdx == {i \in TexIdx : \A j \in TexIdx : ~RankBelow(Rank(dirFiles[i]), Rank(dirFiles[j]))}

FirstOf(S) == CHOOSE i \in S : \A j \in S : i <= j

\* find_main_latex_file has just returned to main
SelectorReturned == pc = "convert"

Finished == pc = "done"

----------------------------------------------------------------------------
(* Properties *)

\* C1: find_main_latex_file returns None exactly when the scan finds no file
\* ending in ".tex"; otherwise it returns the path of a scanned candidate whose
\* pair (name signal + declaration signal, inclusion count) no other candidate
\* exceeds in lexicographic order.
C1_SelectsMaximalCandidate ==
    SelectorReturned =>
        /\ selResult = None <=> TexIdx = {}
        /\ TexIdx # {} => \E i \in TopIdx : selResult = PathOf(dirFiles[i])

\* A candidate with both boolean signals and no inclusion was chosen over an
\* earlier one with one signal and two inclusions.
C1_Witness ==
    /\ SelectorReturned
    /\ \E i, j \in TexIdx :
          /\ j < i
          /\ Rank(dirFiles[i]) = <<2, 0>>
          /\ Rank(dirFiles[j]) = <<1, 2>>
          /\ selResult = PathOf(dirFiles[i])

\* C2: every run that created the temporary directory ends with it removed,
\* whichever way the with-block was left.
C2_TempDirRemoved ==
    Finished => ~tempExists /\ dirFiles = <<>>

\* A run ended by an exception out of the converter call, directory removed.
C2_Witness ==
    /\ Finished
    /\ exc = "FileNotFoundError"
    /\ ~tempExists

\* C3: when the payload cannot be read as an archive, the run prints an error
\* naming the identifier and exits with status 1, and neither the selector nor
\* the converter runs.
C3_ArchiveError ==
    raised = "ReadError" =>
        /\ \E m \in Printed : Contains(m, arxiv_id) /\ StartsWith(m, "Error")
        /\ ~Ran("select")
        /\ ~Ran("convert")
        /\ runArgs = <<>>
        /\ selResult = None
        /\ exc = "SystemExit"
        /\ Finished => exitStatus = 1

C3_Witness ==
    /\ Finished
    /\ raised = "ReadError"
    /\ exitStatus = 1
    /\ ArchiveErrorMsg \in Printed

\* C4: every transport failure of the fetch is reported by the program with a
\* message other than the archive-error message and re-raised, so the run ends
\* with a non-zero status without running the selector or the converter.
C4_TransportErrorReported ==
    (Finished /\ raised \in TransportErrors) =>
        /\ \E m \in Printed : m # ArchiveErrorMsg
        /\ exc = raised
        /\ exitStatus # 0
        /\ ~Ran("select")
        /\ ~Ran("convert")

\* C5: a run whose selector finds no candidate and which has no fallback path
\* reports the failure and exits with status 1 without invoking the converter.
C5_SelectionFailure ==
    (pc \in {"exit", "done"} /\ Ran("select") /\ raised # "UnicodeDecodeError"
        /\ selResult = None /\ source_contents = None) =>
        /\ NoSourceMsg \in Printed
        /\ runArgs = <<>>
        /\ ~Ran("convert")
        /\ exc = "SystemExit"
        /\ Finished => exitStatus = 1

C5_Witness ==
    /\ Finished
    /\ Ran("select")
    /\ selResult = None
    /\ source_contents = None
    /\ exitStatus = 1
    /\ runArgs = <<>>

\* C6: in a run with no output file the converter gets no destination, no file
\* is created, the converted content goes to standard output, and nothing the
\* program itself prints goes to standard output.
C6_NoOutputFileStreams ==
    ~Truthy(output_file) =>
        /\ \A i \in DOMAIN runArgs : ~HasDestination(runArgs[i])
        /\ outFiles = {}
        /\ runResult = "ok" => \E i \in DOMAIN stdout : stdout[i].by = "pandoc"
        /\ ProgramMsgs(stdout) = {}

\* C7 as stated: a run whose fetch and extraction succeed and in which a main
\* file is chosen exits with status zero and reports success, whatever the
\* converter did.
C7_AsStated ==
    (Finished /\ extracted /\ Truthy(main_file)) =>
        /\ exitStatus = 0
        /\ ProgramMsgs(stderr) = {DoneMsg}

\* C7, amended: whenever the converter call returns, the run reports success on
\* standard error and exits with status zero, whether the converter process
\* succeeded or failed.
C7_ConverterStatusIgnored ==
    (Finished /\ runResult \in {"ok", "fail"}) =>
        /\ exitStatus = 0
        /\ exc = NoExc
        /\ ProgramMsgs(stderr) = {DoneMsg}
        /\ ProgramMsgs(stdout) = {}

C7_Witness ==
    /\ Finished
    /\ extracted
    /\ runResult = "fail"
    /\ exitStatus = 0
    /\ ProgramMsgs(stderr) = {DoneMsg}

\* C8: among the candidates sharing the maximal pair, the one the scan
\* discovered first is returned.
C8_FirstDiscoveredWinsTies ==
    (SelectorReturned /\ TexIdx # {}) =>
        selResult = PathOf(dirFiles[FirstOf(TopIdx)])

\* Two candidates share the maximal pair and the earlier one was returned.
C8_Witness ==
    /\ SelectorReturned
    /\ Cardinality(TopIdx) >= 2
    /\ selResult = PathOf(dirFiles[FirstOf(TopIdx)])

\* C9 as stated: the steps run in the order fetch, extract, select, convert,
\* each at most once; the selector only after a successful extraction, the
\* converter only after the selector; after a fetch or extraction failure
\* neither the selector nor the converter runs.
C9_AsStated ==
    /\ IsPrefix(steps, Pipeline)
    /\ Ran("select") => extracted
    /\ Len(runArgs) <= 1
    /\ (raised \in TransportErrors \cup ExtractErrors \/ DownloadErrorMsg \in Printed)
          => (~Ran("select") /\ ~Ran("convert"))

\* C9, amended: the steps run in the order fetch, extract, select, convert, each
\* at most once; the selector runs only after download_arxiv_source returned,
\* that is after an extraction without error or after a response whose status
\* is not 200, for which nothing is extracted and the converter never runs;
\* the converter runs at most once and only after the selector returned; after
\* an exception from the fetch or the extraction neither runs.
C9_PipelineOrder ==
    /\ \/ IsPrefix(steps, Pipeline)
       \/ steps = <<"fetch", "select">>
    /\ Ran("select") =>
          \/ extracted /\ status = 200 /\ Ran("extract")
          \/ ~extracted /\ status \in Responses \ {200} /\ ~Ran("extract")
                /\ DownloadErrorMsg \in Printed /\ dirFiles = <<>> /\ runArgs = <<>>
    /\ Len(runArgs) <= 1
    /\ Ran("convert") <=> Len(runArgs) = 1
    /\ Ran("convert") => Ran("select") /\ raised # "UnicodeDecodeError"
    /\ raised \in TransportErrors \cup ExtractErrors
          => (pc \in {"exit", "done"} /\ ~Ran("select") /\ ~Ran("convert"))

\* The selector ran after a response whose status is not 200.
C9_Witness ==
    /\ Finished
    /\ steps = <<"fetch", "select">>
    /\ status = 204
    /\ exitStatus = 1

\* The path handed to the converter
HandedToConverter == runArgs[1][3]

Fallback == temp_dir \o "/" \o arxiv_id \o ".tar.gz"

\* The only file there can be at the fallback path is a member of the archive
\* that has this name: the downloaded payload itself is never saved.
PayloadNeverSaved ==
    FileExists(Fallback) =>
        \E i \in DOMAIN dirFiles :
            dirFiles[i].root = temp_dir /\ dirFiles[i].file = arxiv_id \o ".tar.gz"

====
